---- MODULE Spec2Model ----
(***************************************************************************)
(* Model of the recurring-event core of the tracker application:           *)
(*   tracker/utils.py   generate_occurrences, shift_time_by_minutes        *)
(*   tracker/tasks.py   send_event_notifications (the per-minute sweep)    *)
(*   tracker/models.py  Event, RecurrenceRule, EventNotificationLog        *)
(*                                                                         *)
(* Dates are proleptic Gregorian ordinals (date.toordinal(): 0001-01-01 is *)
(* 1), times of day are records [hour, minute], instants are minutes since *)
(* 0001-01-01T00:00 UTC.                                                   *)
(***************************************************************************)
EXTENDS Integers, Sequences, FiniteSets, TLC

VARIABLES
    occ,        \* one call of generate_occurrences: arguments, position, result
    sh,         \* one round trip through shift_time_by_minutes
    events,     \* the rows of Event (with the joined RecurrenceRule), by primary key
    log,        \* the rows of EventNotificationLog: pairs <<event, occurrence_date>>
    now_utc,    \* the clock read by timezone.now(), in minutes
    inv,        \* the running invocations of send_event_notifications
    hist,       \* bookkeeping about the invocations, read by the properties only
    api,        \* the store behind EventSerializer and the outcome of its last call
    auth        \* the users, the cache and the requests in flight of SendCodeView

vars == <<occ, sh, events, log, now_utc, inv, hist, api, auth>>

(***************************************************************************)
(* The calendar: datetime.date                                             *)
(***************************************************************************)

\* date(y, m, d).toordinal()
Ordinal(y, m, d) ==
    LET yy  == IF m <= 2 THEN y - 1 ELSE y
        era == yy \div 400
        yoe == yy - era * 400
        mp  == IF m > 2 THEN m - 3 ELSE m + 9
        doy == (153 * mp + 2) \div 5 + d - 1
        doe == yoe * 365 + yoe \div 4 - yoe \div 100 + doy
    IN  era * 146097 + doe - 305

\* date.fromordinal(o) as [year, month, day]
Civil(o) ==
    LET z   == o + 305
        era == z \div 146097
        doe == z - era * 146097
        yoe == (doe - doe \div 1460 + doe \div 36524 - doe \div 146096) \div 365
        doy == doe - (365 * yoe + yoe \div 4 - yoe \div 100)
        mp  == (5 * doy + 2) \div 153
        m   == IF mp < 10 THEN mp + 3 ELSE mp - 9
    IN  [year  |-> yoe + era * 400 + (IF m <= 2 THEN 1 ELSE 0),
         month |-> m,
         day   |-> doy - (153 * mp + 2) \div 5 + 1]

\* date.day
DayOfMonth(o) == Civil(o).day

\* date.isoweekday(): Monday is 1, Sunday is 7
IsoWeekday(o) == ((o - 1) % 7) + 1

\* the number of days of the month that holds day o
DaysInMonth(o) ==
    LET c == Civil(o)
        ny == IF c.month = 12 THEN c.year + 1 ELSE c.year
        nm == IF c.month = 12 THEN 1 ELSE c.month + 1
    IN  Ordinal(ny, nm, 1) - Ordinal(c.year, c.month, 1)

(***************************************************************************)
(* RecurrenceRule and Event rows                                           *)
(***************************************************************************)

\* Event.recurrence is a nullable foreign key: the value None
NoRule ==
    [frequency |-> "none", interval |-> 0, week_days |-> {}, month_days |-> {},
     end_date |-> 0]

\* RecurrenceRule: week_days and month_days are JSON lists or null (null and
\* the empty list are both the empty set here: the code reads them through
\* "or []"); end_date 0 is None.
RecurrenceRule(f, i, wd, md, ed) ==
    [frequency |-> f, interval |-> i, week_days |-> wd, month_days |-> md,
     end_date |-> ed]

\* Event: the columns the core reads
Event(sd, t, off, rec, rule) ==
    [start_date |-> sd, time |-> t, timezone_offset |-> off,
     is_recurring |-> rec, recurrence |-> rule]

(***************************************************************************)
(* tracker/utils.py: generate_occurrences                                  *)
(***************************************************************************)

Max2(a, b) == IF a >= b THEN a ELSE b

\* a returned list, or the exception that left the function
Returned(s) == [raised |-> FALSE, value |-> s]
Raised == [raised |-> TRUE, value |-> <<>>]

NonRecurringStrict(event, date_from, date_to) ==
    IF date_from < event.start_date /\ event.start_date <= date_to
    THEN <<event.start_date>>
    ELSE <<>>

\* utils.py 31-34: the branch of a non-recurring event
NonRecurring(event, date_from, date_to) ==
    IF date_from <= event.start_date /\ event.start_date <= date_to
    THEN <<event.start_date>>
    ELSE <<>>

EndReachedExclusive(rule, current) ==
    rule.end_date # 0 /\ current >= rule.end_date

\* utils.py 39-40: "if rule.end_date and current > rule.end_date: break"
EndReached(rule, current) ==
    rule.end_date # 0 /\ current > rule.end_date

DayMatchesClamped(rule, current) ==
    \/ rule.frequency = "daily"
    \/ rule.frequency = "weekly" /\ IsoWeekday(current) \in rule.week_days
    \/ /\ rule.frequency = "monthly"
       /\ \/ DayOfMonth(current) \in rule.month_days
          \/ /\ DayOfMonth(current) = DaysInMonth(current)
             /\ \E d \in rule.month_days : d > DaysInMonth(current)

DayMatchesWeekdayFromSunday(rule, current) ==
    \/ rule.frequency = "daily"
    \/ rule.frequency = "weekly" /\ (current % 7) + 1 \in rule.week_days
    \/ rule.frequency = "monthly" /\ DayOfMonth(current) \in rule.month_days

DayMatchesEveryInterval(rule, current) ==
    \/ rule.frequency = "daily" /\ (rule.interval = 0 \/ current % rule.interval = 0)
    \/ rule.frequency = "weekly" /\ IsoWeekday(current) \in rule.week_days
    \/ rule.frequency = "monthly" /\ DayOfMonth(current) \in rule.month_days

\* utils.py 42-51: whether the day is appended
DayMatches(rule, current) ==
    \/ rule.frequency = "daily"
    \/ rule.frequency = "weekly" /\ IsoWeekday(current) \in rule.week_days
    \/ rule.frequency = "monthly" /\ DayOfMonth(current) \in rule.month_days

\* utils.py 38-53: the while loop, from "current" with "occurrences" so far
RECURSIVE OccurrenceLoop(_, _, _, _)
OccurrenceLoop(rule, current, date_to, occurrences) ==
    IF current > date_to \/ EndReached(rule, current)
    THEN occurrences
    ELSE OccurrenceLoop(rule, current + 1, date_to,
                        IF DayMatches(rule, current)
                        THEN Append(occurrences, current)
                        ELSE occurrences)

\* utils.py 26-55. A recurring event without a rule reads rule.end_date of
\* None in the first iteration (AttributeError); with no iteration it returns [].
generate_occurrences(event, date_from, date_to) ==
    LET current == Max2(event.start_date, date_from) IN
    IF ~event.is_recurring
    THEN Returned(NonRecurring(event, date_from, date_to))
    ELSE IF event.recurrence = NoRule
         THEN (IF current <= date_to THEN Raised ELSE Returned(<<>>))
         ELSE Returned(OccurrenceLoop(event.recurrence, current, date_to, <<>>))

(***************************************************************************)
(* Times of day and instants: datetime.time, datetime.datetime             *)
(***************************************************************************)

MinutesPerDay == 24 * 60

\* datetime.time, to the minute
Time(h, m) == [hour |-> h, minute |-> m]

\* datetime.combine(date, time): minutes since 0001-01-01T00:00
Combine(o, t) == (o - 1) * MinutesPerDay + t.hour * 60 + t.minute

\* datetime.time() and datetime.date()
TimeOf(dt) == Time((dt % MinutesPerDay) \div 60, dt % 60)
DateOf(dt) == dt \div MinutesPerDay + 1

(***************************************************************************)
(* tracker/utils.py: shift_time_by_minutes                                 *)
(***************************************************************************)

shift_time_by_minutes_clamped(value, delta_minutes) ==
    LET m == value.hour * 60 + value.minute + delta_minutes
        c == IF m < 0 THEN 0 ELSE IF m >= MinutesPerDay THEN MinutesPerDay - 1 ELSE m
    IN  Time(c \div 60, c % 60)

\* utils.py 85-94: the time of day of 2000-01-01T<value> plus the delta
shift_time_by_minutes(value, delta_minutes) ==
    LET base    == Combine(Ordinal(2000, 1, 1), value)
        shifted == base + delta_minutes
    IN  TimeOf(shifted)

(***************************************************************************)
(* The inputs of the two pure functions                                    *)
(***************************************************************************)

\* the first day of the calendar window the inputs are drawn from
Epoch == Ordinal(2024, 1, 1)

MaxDay == 62        \* start dates and windows begin at Epoch .. Epoch + MaxDay
MaxWindow == 35     \* the longest window, in days past date_from
MaxDelta == 1445    \* the deltas are -MaxDelta .. MaxDelta

OccRules ==
    { RecurrenceRule(f, i, wd, md, ed) :
        f \in {"daily"}, i \in {1, 2}, wd \in {{}}, md \in {{}},
        ed \in {0, Epoch + 10, Epoch + 31, Epoch + 45} }
    \cup
    { RecurrenceRule(f, i, wd, md, ed) :
        f \in {"weekly"}, i \in {1, 2}, wd \in {{1, 4}, {7}, {}}, md \in {{}},
        ed \in {0, Epoch + 10, Epoch + 31, Epoch + 45} }
    \cup
    { RecurrenceRule(f, i, wd, md, ed) :
        f \in {"monthly"}, i \in {1, 2}, wd \in {{}},
        md \in {{31}, {30}, {1, 15}, {15, 31}, {}},
        ed \in {0, Epoch + 10, Epoch + 31, Epoch + 45} }

\* Rows the store can hold: the foreign key is nullable and Event.clean is
\* not run by save(), so the flag and the rule are independent columns.
OccEvents ==
    { Event(sd, Time(9, 0), 0, TRUE, r) :
        sd \in {Epoch, Epoch + 10, Epoch + 40}, r \in OccRules \cup {NoRule} }
    \cup
    { Event(sd, Time(9, 0), 0, FALSE, r) :
        sd \in {Epoch, Epoch + 10, Epoch + 40},
        r \in {NoRule, RecurrenceRule("daily", 1, {}, {}, 0),
               RecurrenceRule("weekly", 1, {1, 4}, {}, 0)} }

WindowLengths == {0, 1, 13, MaxWindow}

ShiftTimes == { Time(h, m) : h \in 0..23, m \in {0, 59} }

Deltas == (0 - MaxDelta) .. MaxDelta

OccIdle ==
    [pc |-> "off", event |-> Event(0, Time(0, 0), 0, FALSE, NoRule),
     date_from |-> 0, date_to |-> 0, result |-> Returned(<<>>)]

ShIdle == [pc |-> "off", t |-> Time(0, 0), d |-> 0, out |-> Time(0, 0),
           back |-> Time(0, 0)]

(***************************************************************************)
(* One call of generate_occurrences                                        *)
(***************************************************************************)

InitOcc ==
    /\ occ \in { [pc |-> "call", event |-> e, date_from |-> f, date_to |-> f + w,
                  result |-> Returned(<<>>)] :
                 e \in OccEvents, f \in Epoch .. (Epoch + MaxDay),
                 w \in WindowLengths }
    /\ sh = ShIdle
    /\ events = <<>>
    /\ log = {}
    /\ now_utc = 0
    /\ inv = <<>>
    /\ hist = <<>>
    /\ api = <<>>
    /\ auth = <<>>

Generate ==
    /\ occ.pc = "call"
    /\ occ' = [occ EXCEPT !.pc = "ret",
                          !.result = generate_occurrences(occ.event, occ.date_from,
                                                          occ.date_to)]
    /\ UNCHANGED <<sh, events, log, now_utc, inv, hist, api, auth>>

NextOcc == Generate

SpecOcc == InitOcc /\ [][NextOcc]_vars

(***************************************************************************)
(* One round trip through shift_time_by_minutes                            *)
(***************************************************************************)

InitShift ==
    /\ sh \in { [pc |-> "call", t |-> t, d |-> d, out |-> Time(0, 0),
                 back |-> Time(0, 0)] : t \in ShiftTimes, d \in Deltas }
    /\ occ = OccIdle
    /\ events = <<>>
    /\ log = {}
    /\ now_utc = 0
    /\ inv = <<>>
    /\ hist = <<>>
    /\ api = <<>>
    /\ auth = <<>>

ShiftThere ==
    /\ sh.pc = "call"
    /\ sh' = [sh EXCEPT !.pc = "shifted", !.out = shift_time_by_minutes(sh.t, sh.d)]
    /\ UNCHANGED <<occ, events, log, now_utc, inv, hist, api, auth>>

ShiftBack ==
    /\ sh.pc = "shifted"
    /\ sh' = [sh EXCEPT !.pc = "back",
                        !.back = shift_time_by_minutes(sh.out, 0 - sh.d)]
    /\ UNCHANGED <<occ, events, log, now_utc, inv, hist, api, auth>>

NextShift == ShiftThere \/ ShiftBack

SpecShift == InitShift /\ [][NextShift]_vars

(***************************************************************************)
(* tracker/tasks.py: send_event_notifications                              *)
(***************************************************************************)

\* what reading an attribute gives: its value, or AttributeError. A value is
\* the decimal text of an offset in minutes (fmt "int") or anything else
\* (fmt "text", with the UTC offset pytz resolves it to, or no zone at all).
AttrValue(f, m, z) == [raised |-> FALSE, fmt |-> f, minutes |-> m, zone |-> z]
AttributeError == [raised |-> TRUE, fmt |-> "none", minutes |-> 0, zone |-> FALSE]

EventTimezoneFromOffset(event) == AttrValue("int", event.timezone_offset, FALSE)

\* The expression "event.timezone" of tasks.py 29 and 33. The model class
\* Event (models.py 247-283) declares start_date, time, timezone_offset,
\* is_recurring and recurrence, and neither a field nor a property named
\* "timezone": on a row loaded from the store the read raises AttributeError.
EventTimezone(event) == AttributeError

\* the outcome of tasks.py 28-36: now_local, or "continue"
LocalTime(dt) == [ok |-> TRUE, at |-> dt]
NoLocalTime == [ok |-> FALSE, at |-> 0]

\* tasks.py 28-36: int(event.timezone), then pytz.timezone(event.timezone),
\* both inside "except Exception"
NowLocal(event, now) ==
    LET first  == EventTimezone(event)
        second == EventTimezone(event)
    IN  IF ~first.raised /\ first.fmt = "int"
        THEN LocalTime(now + first.minutes)
        ELSE IF ~second.raised /\ second.fmt = "text" /\ second.zone
             THEN LocalTime(now + second.minutes)
             ELSE NoLocalTime

\* tasks.py 39-43: the hour and the minute of now_local against event.time
SameMinute(local, t) ==
    TimeOf(local).hour = t.hour /\ TimeOf(local).minute = t.minute

\* the outcome of one iteration up to its existence query
Continue == [op |-> "continue", today |-> 0]
Propagate == [op |-> "raise", today |-> 0]
ToCreate(d) == [op |-> "create", today |-> d]

\* tasks.py 28-60 for one event: "rows" is what the existence query sees
Examine(pk, event, now, rows) ==
    LET nl == NowLocal(event, now) IN
    IF ~nl.ok THEN Continue
    ELSE IF ~SameMinute(nl.at, event.time) THEN Continue
    ELSE LET today == DateOf(nl.at)
             occurrences == generate_occurrences(event, today, today)
         IN  IF occurrences.raised THEN Propagate
             ELSE IF occurrences.value = <<>> THEN Continue
             ELSE IF <<pk, today>> \in rows THEN Continue
             ELSE ToCreate(today)

(***************************************************************************)
(* The sweep as a process: invocations of the task, the clock              *)
(***************************************************************************)

MaxRuns == 3        \* invocations started in one behaviour
MaxClock == 5       \* clock steps in one behaviour

ClockStep == 6 * 60
ClockStart == Combine(Epoch, Time(0, 0))

SchedEvents ==
    { Event(Epoch, Time(9, 0), 180, FALSE, NoRule),
      Event(Epoch, Time(9, 30), 180, FALSE, NoRule),
      Event(Epoch + 1, Time(2, 0), 840, TRUE,
            RecurrenceRule("daily", 1, {}, {}, 0)),
      Event(Epoch, Time(19, 0), -300, TRUE,
            RecurrenceRule("weekly", 1, {1}, {}, 0)),
      Event(Epoch, Time(9, 0), 180, TRUE, NoRule) }

\* two workers, so that two invocations of the task can overlap
Invs == {"w1", "w2"}

InvIdle ==
    [pc |-> "idle", idx |-> 0, now |-> 0, today |-> 0, run |-> 0,
     alone |-> TRUE, log0 |-> {}, log1 |-> {}, error |-> "none"]

Running(i) == inv[i].pc \in {"loop", "create"}

Init ==
    /\ events \in { <<a, b>> : a \in SchedEvents, b \in SchedEvents }
    /\ log = {}
    /\ now_utc = ClockStart
    /\ inv = [i \in Invs |-> InvIdle]
    /\ hist = [runs |-> 0, passed |-> {}, created |-> {}]
    /\ occ = OccIdle
    /\ sh = ShIdle
    /\ api = <<>>
    /\ auth = <<>>

\* the clock moves on
Advance ==
    /\ now_utc < ClockStart + MaxClock * ClockStep
    /\ now_utc' = now_utc + ClockStep
    /\ UNCHANGED <<occ, sh, events, log, inv, hist, api, auth>>

\* tasks.py 20-24: a worker starts the task; it reads the clock once and
\* the events with one query, which raises when the store cannot be reached
\* ("up" is whether it can): nothing in the task catches that.
Start(i) ==
    /\ ~Running(i)
    /\ hist.runs < MaxRuns
    /\ \E up \in BOOLEAN :
         inv' = [j \in Invs |->
                 IF j = i
                 THEN [pc |-> IF up THEN "loop" ELSE "failed",
                       idx |-> 1, now |-> now_utc, today |-> 0,
                       run |-> hist.runs + 1,
                       alone |-> \A k \in Invs \ {i} : ~Running(k),
                       log0 |-> log, log1 |-> log,
                       error |-> IF up THEN "none" ELSE "store"]
                 ELSE IF Running(j) THEN [inv[j] EXCEPT !.alone = FALSE]
                 ELSE inv[j]]
    /\ hist' = [hist EXCEPT !.runs = hist.runs + 1]
    /\ UNCHANGED <<occ, sh, events, log, now_utc, api, auth>>

\* tasks.py 24-69: the loop up to its next access to the store. At "loop" the
\* next event is examined up to the existence query of lines 54-57; at
\* "create" the row is inserted (lines 66-69), which the unique constraint
\* on (event, occurrence_date) turns into an IntegrityError when the row is
\* there: like an exception of generate_occurrences, it ends the task.
Iterate(i) ==
    /\ Running(i)
    /\ LET me == inv[i] IN
       IF me.pc = "loop" /\ me.idx > Len(events)
       THEN /\ inv' = [inv EXCEPT ![i].pc = "done", ![i].log1 = log]
            /\ UNCHANGED <<log, hist>>
       ELSE IF me.pc = "loop"
       THEN LET r == Examine(me.idx, events[me.idx], me.now, log) IN
            /\ inv' = [inv EXCEPT
                         ![i].pc = IF r.op = "create" THEN "create"
                                   ELSE IF r.op = "raise" THEN "failed"
                                   ELSE "loop",
                         ![i].idx = IF r.op = "continue" THEN me.idx + 1 ELSE me.idx,
                         ![i].today = r.today,
                         ![i].error = IF r.op = "raise" THEN "event" ELSE "none",
                         ![i].log1 = log]
            /\ hist' = IF r.op = "create"
                       THEN [hist EXCEPT !.passed = hist.passed \cup
                                            {<<me.run, me.idx, r.today>>}]
                       ELSE hist
            /\ UNCHANGED log
       ELSE IF <<me.idx, me.today>> \in log
       THEN /\ inv' = [inv EXCEPT ![i].pc = "failed", ![i].error = "event",
                                  ![i].log1 = log]
            /\ UNCHANGED <<log, hist>>
       ELSE /\ log' = log \cup {<<me.idx, me.today>>}
            /\ inv' = [inv EXCEPT ![i].pc = "loop", ![i].idx = me.idx + 1,
                                  ![i].log1 = log']
            /\ hist' = [hist EXCEPT !.created = hist.created \cup
                                        {<<me.run, me.idx, me.today>>}]
    /\ UNCHANGED <<occ, sh, events, now_utc, api, auth>>

Next == Advance \/ (\E i \in Invs : Start(i)) \/ (\E i \in Invs : Iterate(i))

Spec == Init /\ [][Next]_vars

\* The sweep under its scheduling, over two events with integer offsets: the
\* beat starts the task again and again, a worker that has started an
\* invocation goes on with it, and time passes.
InitLive ==
    /\ Init
    /\ events = << Event(Epoch, Time(9, 0), 180, FALSE, NoRule),
                   Event(Epoch, Time(19, 0), -300, TRUE,
                         RecurrenceRule("weekly", 1, {1}, {}, 0)) >>

SpecLive ==
    /\ InitLive /\ [][Next]_vars
    /\ WF_vars(Advance)
    /\ \A i \in Invs : WF_vars(Start(i)) /\ WF_vars(Iterate(i))

(***************************************************************************)
(* tracker/serializers.py: the payloads of EventSerializer                 *)
(***************************************************************************)

\* the value a JSON payload carries under "timezone_offset": a number, kept
\* in tenths (180 is 1800, 90.5 is 905), or a text that is not a numeral
Number(tenths) == [kind |-> "number", tenths |-> tenths]
Text == [kind |-> "text", tenths |-> 0]

\* Python int(data): a number is truncated towards zero, the text raises
\* ValueError
IntOf(data) ==
    IF data.kind = "number"
    THEN [ok |-> TRUE,
          value |-> IF data.tenths >= 0 THEN data.tenths \div 10
                    ELSE 0 - ((0 - data.tenths) \div 10)]
    ELSE [ok |-> FALSE, value |-> 0]

MaxOffset == 14 * 60

\* serializers.py 195-205: EventTimezoneOffsetField.to_internal_value
to_internal_value(data) ==
    LET offset == IntOf(data) IN
    IF ~offset.ok THEN [ok |-> FALSE, value |-> 0]
    ELSE IF offset.value < 0 - MaxOffset \/ offset.value > MaxOffset
         THEN [ok |-> FALSE, value |-> 0]
         ELSE [ok |-> TRUE, value |-> offset.value]

\* a nested "recurrence" payload: the keys it has and their values
RulePayload(keys, f, wd, md) ==
    [null |-> FALSE, keys |-> keys, frequency |-> f, week_days |-> wd,
     month_days |-> md]

\* "recurrence": null
NullRule == [null |-> TRUE, keys |-> {}, frequency |-> "", week_days |-> {},
             month_days |-> {}]

\* an EventSerializer payload: the keys it has and their values
Payload(keys, t, off, tz, rec, rule) ==
    [keys |-> keys, time |-> t, timezone_offset |-> off, timezone |-> tz,
     is_recurring |-> rec, recurrence |-> rule]

\* serializers.py 173-182, with the field validation before it: a payload
\* that is not partial must name the frequency; validate() looks at the
\* payload alone, through data.get
RecurrenceRuleSerializer_validate(data, partial) ==
    LET frequency == IF "frequency" \in data.keys THEN data.frequency ELSE "None"
        week_days == IF "week_days" \in data.keys THEN data.week_days ELSE {}
        month_days == IF "month_days" \in data.keys THEN data.month_days ELSE {}
    IN  /\ partial \/ "frequency" \in data.keys
        /\ ~(frequency = "weekly" /\ week_days = {})
        /\ ~(frequency = "monthly" /\ month_days = {})

\* truth value of the validated "recurrence": None and the empty dict are false
Truthy(data, key) ==
    /\ key \in data.keys
    /\ IF key = "recurrence"
       THEN ~data.recurrence.null /\ data.recurrence.keys # {}
       ELSE IF key = "is_recurring" THEN data.is_recurring
       ELSE IF key = "timezone" THEN data.timezone # ""
       ELSE TRUE

RecurringConsistentNoRuleNeeded(data) ==
    ~(~Truthy(data, "is_recurring") /\ Truthy(data, "recurrence"))

\* serializers.py 246-253: the flag and the rule of the payload agree
RecurringConsistent(data) ==
    /\ ~(Truthy(data, "is_recurring") /\ ~Truthy(data, "recurrence"))
    /\ ~(~Truthy(data, "is_recurring") /\ Truthy(data, "recurrence"))

Invalid == [ok |-> FALSE, keys |-> {}, time |-> Time(0, 0),
            timezone |-> AttributeError]

\* serializers.py 233-255, with the field validation before it. "creating"
\* is "self.instance is None". The validated data: the keys it has, the time
\* to store and the text under "timezone" (the offset field puts its value
\* under "timezone_offset_minutes", which validate() pops: no key
\* "timezone_offset" is left).
EventSerializer_validate(data, creating, partial) ==
    LET sent   == "timezone_offset" \in data.keys
        field  == IF sent THEN to_internal_value(data.timezone_offset)
                  ELSE [ok |-> TRUE, value |-> 0]
        nested == "recurrence" \in data.keys /\ ~data.recurrence.null
    IN  IF ~partial /\ "time" \notin data.keys THEN Invalid
        ELSE IF ~field.ok THEN Invalid
        ELSE IF nested /\ ~RecurrenceRuleSerializer_validate(data.recurrence, partial)
             THEN Invalid
        ELSE IF ~sent /\ creating /\ ~Truthy(data, "timezone") THEN Invalid
        ELSE IF ~RecurringConsistent(data) THEN Invalid
        ELSE [ok |-> TRUE,
              keys |-> (data.keys \ {"timezone_offset"})
                          \cup (IF sent THEN {"timezone"} ELSE {}),
              time |-> IF sent /\ "time" \in data.keys
                       THEN shift_time_by_minutes(data.time, field.value)
                       ELSE data.time,
              timezone |-> IF sent THEN AttrValue("int", field.value, FALSE)
                           ELSE IF "timezone" \in data.keys
                           THEN IF data.timezone = "Europe/Moscow"
                                THEN AttrValue("text", 180, TRUE)
                                ELSE AttrValue("text", 0, FALSE)
                           ELSE AttributeError]

(***************************************************************************)
(* The store behind EventSerializer: Event, RecurrenceRule and             *)
(* EventNotificationLog rows, with the foreign keys of models.py           *)
(***************************************************************************)

MaxRules == 2       \* RecurrenceRule rows that can exist at once

EventIds == {1}
RuleIds == 1..MaxRules

\* no row under this primary key. A row of Event holds the primary key of
\* its rule under "recurrence", 0 for NULL.
NoEvent == Event(0, Time(0, 0), 0, FALSE, 0)

\* the row with its rule joined, as the sweep and generate_occurrences read it
Resolve(row, rules) ==
    [row EXCEPT !.recurrence = IF row.recurrence = 0 THEN NoRule
                               ELSE rules[row.recurrence]]

FreeRuleIds(rules) == { r \in RuleIds : rules[r] = NoRule }

\* the primary key of a new rule (a fresh uuid4)
NewRuleId(rules) ==
    CHOOSE r \in FreeRuleIds(rules) : \A q \in FreeRuleIds(rules) : r <= q

\* RecurrenceRule.objects.create(**recurrence_data): a column the payload
\* does not name takes its default (models.py 221-230)
RuleFromPayload(data) ==
    RecurrenceRule(IF "frequency" \in data.keys THEN data.frequency ELSE "",
                   1,
                   IF "week_days" \in data.keys THEN data.week_days ELSE {},
                   IF "month_days" \in data.keys THEN data.month_days ELSE {},
                   0)

\* serializers.py 292-294: setattr for each key of the payload, then save()
RuleWithPayload(rule, data) ==
    [rule EXCEPT
       !.frequency = IF "frequency" \in data.keys THEN data.frequency ELSE @,
       !.week_days = IF "week_days" \in data.keys THEN data.week_days ELSE @,
       !.month_days = IF "month_days" \in data.keys THEN data.month_days ELSE @]

\* RecurrenceRule.delete(): Event.recurrence is on_delete=CASCADE (models.py
\* 267-273), so the events that point to the rule go with it, and
\* EventNotificationLog.event is on_delete=CASCADE (models.py 290), so their
\* log rows go too
DeleteRule(st, rid) ==
    LET gone == { pk \in EventIds : st.events[pk] # NoEvent
                                    /\ st.events[pk].recurrence = rid }
    IN  [st EXCEPT !.events = [pk \in EventIds |->
                                 IF pk \in gone THEN NoEvent ELSE st.events[pk]],
                   !.rules[rid] = NoRule,
                   !.log = { e \in st.log : e[1] \notin gone }]

\* Event.delete(): the log rows of the event go with it (models.py 290);
\* nothing points from RecurrenceRule to Event, so the rule row stays
DeleteEvent(st, pk) ==
    [st EXCEPT !.events[pk] = NoEvent,
               !.log = { e \in st.log : e[1] # pk }]

Outcome(st, error) == [st |-> st, error |-> error]

\* serializers.py 269-277. Event.objects.create(**validated_data) is given
\* the key "timezone", which Event (models.py 247-283) has no field for:
\* Model.__init__ raises TypeError, after the rule has been created.
EventSerializer_create(st, v, data) ==
    LET recurring == "is_recurring" \in v.keys /\ data.is_recurring
        st1 == IF recurring
               THEN [st EXCEPT !.rules[NewRuleId(st.rules)] =
                                   RuleFromPayload(data.recurrence)]
               ELSE st
        free == { pk \in EventIds : st.events[pk] = NoEvent }
        new == CHOOSE pk \in free : TRUE
    IN  IF "timezone" \in v.keys THEN Outcome(st1, "TypeError")
        ELSE Outcome([st1 EXCEPT !.events[new] =
                         Event(Epoch, v.time, 0, recurring,
                               IF recurring THEN NewRuleId(st.rules) ELSE 0)],
                     "none")

\* serializers.py 279-305. setattr(instance, "timezone", ...) sets a plain
\* attribute of the object: save() writes the columns only.
EventSerializer_update(st, pk, v, data) ==
    LET old   == st.events[pk]
        inst  == [old EXCEPT
                    !.time = IF "time" \in v.keys THEN v.time ELSE @,
                    !.is_recurring = IF "is_recurring" \in v.keys
                                     THEN data.is_recurring ELSE @]
        st1   == [st EXCEPT !.events[pk] = inst]
        given == "recurrence" \in v.keys /\ ~data.recurrence.null
    IN  IF inst.is_recurring
        THEN IF inst.recurrence # 0
             THEN IF ~given THEN Outcome(st1, "AttributeError")
                  ELSE Outcome([st1 EXCEPT !.rules[inst.recurrence] =
                                   RuleWithPayload(@, data.recurrence)], "none")
             ELSE IF ~given THEN Outcome(st1, "TypeError")
                  ELSE Outcome([st1 EXCEPT
                                  !.rules[NewRuleId(st.rules)] =
                                      RuleFromPayload(data.recurrence),
                                  !.events[pk].recurrence = NewRuleId(st.rules)],
                               "none")
        ELSE IF inst.recurrence # 0
             THEN Outcome([DeleteRule(st1, inst.recurrence) EXCEPT
                             !.events[pk] = [inst EXCEPT !.recurrence = 0]],
                          "none")
             ELSE Outcome(st1, "none")

NoOffset == [none |-> TRUE, minutes |-> 0]

\* utils.py 58-82: None for an empty or unknown name, else the minutes
timezone_offset_minutes(tz_name, date, time) ==
    IF tz_name.fmt = "int" THEN [none |-> FALSE, minutes |-> tz_name.minutes]
    ELSE IF tz_name.zone THEN [none |-> FALSE, minutes |-> tz_name.minutes]
    ELSE NoOffset

\* serializers.py 257-267 (and 192-193): the "time" of the response, or the
\* AttributeError of reading instance.timezone
to_representation(instance, tz_name) ==
    IF tz_name.raised THEN [raised |-> TRUE, time |-> Time(0, 0)]
    ELSE LET offset == timezone_offset_minutes(tz_name, instance.start_date,
                                               instance.time)
         IN  [raised |-> FALSE,
              time |-> IF offset.none THEN instance.time
                       ELSE shift_time_by_minutes(instance.time,
                                                  0 - offset.minutes)]

\* tasks.py 24-69, one invocation on its own, from the event "pk" on
RECURSIVE SweepFrom(_, _, _)
SweepFrom(pk, now, st) ==
    IF pk \notin EventIds THEN Outcome(st, "none")
    ELSE IF st.events[pk] = NoEvent THEN SweepFrom(pk + 1, now, st)
    ELSE LET r == Examine(pk, Resolve(st.events[pk], st.rules), now, st.log) IN
         IF r.op = "raise" THEN Outcome(st, "AttributeError")
         ELSE IF r.op = "create"
              THEN SweepFrom(pk + 1, now,
                             [st EXCEPT !.log = @ \cup {<<pk, r.today>>}])
              ELSE SweepFrom(pk + 1, now, st)

(***************************************************************************)
(* Calls of EventSerializer, Event.delete() and the sweep on one store     *)
(***************************************************************************)

SentTimes == { Time(23, 30) }

\* 180, 90.5, 841 and a text
SentOffsets == { Number(1800), Number(905), Number(8410), Text }

RulePayloads ==
    { RulePayload({"frequency"}, "daily", {}, {}),
      RulePayload({"frequency", "week_days"}, "weekly", {1, 4}, {}),
      RulePayload({"frequency"}, "monthly", {}, {}),
      RulePayload({"frequency", "week_days"}, "weekly", {}, {}),
      RulePayload({"week_days"}, "", {}, {}) }

\* the part of a payload about the time and the offset
TimeParts ==
    { Payload(k, t, off, "", FALSE, NullRule) :
        k \in { {"time", "timezone_offset"}, {"timezone_offset"} },
        t \in SentTimes, off \in SentOffsets }
    \cup
    { Payload(k, t, Text, tz, FALSE, NullRule) :
        k \in { {"time", "timezone"}, {"time"}, {} },
        t \in SentTimes, tz \in {"Europe/Moscow"} }

\* the part of a payload about the recurrence
RecurrenceParts ==
    { Payload({"is_recurring"}, Time(0, 0), Text, "", b, NullRule) : b \in BOOLEAN }
    \cup
    { Payload({"is_recurring", "recurrence"}, Time(0, 0), Text, "", TRUE, r) :
        r \in RulePayloads \cup {NullRule} }
    \cup
    { Payload({"is_recurring", "recurrence"}, Time(0, 0), Text, "", FALSE, NullRule),
      Payload({"recurrence"}, Time(0, 0), Text, "", FALSE,
              RulePayload({"frequency"}, "daily", {}, {})) }

\* a recurrence part on top of a time sent with the offset 180
Complete(p) ==
    [p EXCEPT !.keys = @ \cup {"time", "timezone_offset"},
              !.time = Time(23, 30),
              !.timezone_offset = Number(1800)]

\* the payloads of an update
Payloads ==
    TimeParts \cup RecurrenceParts
    \cup { Complete(p) : p \in RecurrenceParts }

\* the payloads of a creation
CreatePayloads ==
    TimeParts
    \cup { Complete(p) : p \in { q \in RecurrenceParts :
                                   q.recurrence.null
                                   \/ q.recurrence.week_days # {} } }

ApiInstants ==
    { Combine(Epoch + d, Time(6, 0)) : d \in 0..1 }

NoPayload == Payload({}, Time(0, 0), Text, "", FALSE, NullRule)

\* the outcome of a call: the status of the response, the exception behind a
\* 500, the "time" of the response body, and what the call did to the store
Call(op, pk, data, status, error, rep, before, after) ==
    [op |-> op, pk |-> pk,
     keys |-> data.keys \cap {"time", "timezone_offset"}, time |-> data.time,
     timezone_offset |-> data.timezone_offset,
     status |-> status, error |-> error, rep |-> rep,
     changed |-> <<before.events, before.rules, before.log>>
                    # <<after.events, after.rules, after.log>>,
     removed |-> before.log \ after.log,
     flipped |-> \E k \in EventIds :
                    /\ before.events[k] # NoEvent /\ after.events[k] # NoEvent
                    /\ before.events[k].is_recurring
                          # after.events[k].is_recurring]

NoRep == [raised |-> FALSE, time |-> Time(0, 0)]

\* the stores at the start: one event with its rule, as EventSerializer is
\* meant to leave them, with or without the log row of its first occurrence
ApiRows ==
    { <<Event(Epoch, Time(9, 0), 180, FALSE, 0), NoRule>>,
      <<Event(Epoch, Time(19, 0), -300, TRUE, 1),
        RecurrenceRule("weekly", 1, {1}, {}, 0)>>,
      <<Event(Epoch, Time(9, 0), 180, TRUE, 1),
        RecurrenceRule("monthly", 1, {}, {15}, 0)>> }

FirstRow(r) ==
    LET o == generate_occurrences([r[1] EXCEPT !.recurrence = r[2]],
                                  Epoch, Epoch + MaxWindow)
    IN  { <<1, o.value[1]>> }

\* before the first call
NoCall ==
    [op |-> "none", pk |-> 0, keys |-> {}, time |-> Time(0, 0), timezone_offset |-> Text,
     status |-> "ok", error |-> "none", rep |-> NoRep, changed |-> FALSE,
     removed |-> {}, flipped |-> FALSE]

InitApi ==
    /\ \E r \in ApiRows :
         \E l \in {{}, FirstRow(r)} :
            api = [events |-> [pk \in EventIds |-> r[1]],
                   rules |-> [rid \in RuleIds |-> IF rid = 1 THEN r[2] ELSE NoRule],
                   log |-> l,
                   last |-> NoCall]
    /\ occ = OccIdle
    /\ sh = ShIdle
    /\ events = <<>>
    /\ log = {}
    /\ now_utc = 0
    /\ inv = <<>>
    /\ hist = <<>>
    /\ auth = <<>>

\* the response to a write: 400 when validation fails; 500 when the handler
\* raises, be it in create()/update() or in building the response body
Respond(op, data, v, out, pk) ==
    LET tz  == IF "timezone" \in v.keys THEN v.timezone
               ELSE EventTimezone(out.st.events[pk])
        rep == IF v.ok /\ out.error = "none" /\ pk \in EventIds
               THEN to_representation(out.st.events[pk], tz) ELSE NoRep
        error == IF out.error # "none" THEN out.error
                 ELSE IF rep.raised THEN "AttributeError" ELSE "none"
    IN  [out.st EXCEPT
           !.last = Call(op, pk, data,
                         IF ~v.ok THEN "400" ELSE IF error # "none" THEN "500"
                         ELSE "ok",
                         error, rep, api, out.st)]

\* EventSerializer(data=...).is_valid() and save()
ApiCreate ==
    /\ \E data \in CreatePayloads :
         LET v == EventSerializer_validate(data, TRUE, FALSE) IN
         /\ (v.ok /\ "is_recurring" \in v.keys /\ data.is_recurring)
               => FreeRuleIds(api.rules) # {}
         /\ api' = Respond("create", data, v,
                           IF v.ok THEN EventSerializer_create(api, v, data)
                           ELSE Outcome(api, "none"), 0)
    /\ UNCHANGED <<occ, sh, events, log, now_utc, inv, hist, auth>>

\* EventSerializer(instance, data=..., partial=...).is_valid() and save()
ApiUpdate ==
    /\ \E pk \in EventIds, data \in Payloads, partial \in BOOLEAN :
         LET v == EventSerializer_validate(data, FALSE, partial) IN
         /\ api.events[pk] # NoEvent
         /\ (v.ok /\ "is_recurring" \in v.keys /\ data.is_recurring
                  /\ api.events[pk].recurrence = 0)
               => FreeRuleIds(api.rules) # {}
         /\ api' = Respond("update", data, v,
                           IF v.ok THEN EventSerializer_update(api, pk, v, data)
                           ELSE Outcome(api, "none"), pk)
    /\ UNCHANGED <<occ, sh, events, log, now_utc, inv, hist, auth>>

\* Event.delete()
ApiDestroy ==
    /\ \E pk \in EventIds :
         /\ api.events[pk] # NoEvent
         /\ api' = [DeleteEvent(api, pk) EXCEPT
                      !.last = Call("destroy", pk, NoPayload, "ok", "none", NoRep,
                                    api, DeleteEvent(api, pk))]
    /\ UNCHANGED <<occ, sh, events, log, now_utc, inv, hist, auth>>

\* one invocation of send_event_notifications between two calls
ApiTick ==
    /\ \E now \in ApiInstants :
         LET out == SweepFrom(1, now, api) IN
         api' = [out.st EXCEPT
                   !.last = Call("tick", 0, NoPayload,
                                 IF out.error = "none" THEN "ok" ELSE "500",
                                 out.error, NoRep, api, out.st)]
    /\ UNCHANGED <<occ, sh, events, log, now_utc, inv, hist, auth>>

NextApi == ApiCreate \/ ApiUpdate \/ ApiDestroy \/ ApiTick

SpecApi == InitApi /\ [][NextApi]_vars

(***************************************************************************)
(* tracker/views.py: SendCodeView.post, requests in flight                 *)
(***************************************************************************)

MaxPosts == 3       \* requests started in one behaviour
MaxTicks == 3       \* clock steps in one behaviour

CacheTimeout == 60
TickSeconds == CacheTimeout \div 2

\* phone numbers as PhoneNumberSerializer hands them on (normalised)
Phones == {"79001000010", "79001000011"}

\* values of random.randint(1000, 9999)
Codes == {1000, 9999}

\* two requests can be in the handler at once
Clients == {"r1", "r2"}

\* a row of User: the columns of the confirmation code
User(code, sent, attempts, verified) ==
    [confirmation_code |-> code, code_sent_at |-> sent,
     code_attempts |-> attempts, is_verified |-> verified]

\* no row with this phone number
NoUser == User(0, 0, 0 - 1, FALSE)

\* a request and where it is in its handler. For send-code: "code" is the
\* code drawn, "found" what the query of views.py 119 returned, "wrote"
\* whether the request stored a code, "gap" the age in seconds of the code it
\* replaced. For verify-code: "code" is the code submitted, "seen" the user
\* object loaded by serializers.py 34, "at" the time of the comparison.
Request(kind, pc, phone, code, found, seen, at, wrote, gap, status) ==
    [kind |-> kind, pc |-> pc, phone |-> phone, code |-> code, found |-> found,
     seen |-> seen, at |-> at, wrote |-> wrote, gap |-> gap, status |-> status]

NoRequest == Request("none", "idle", "", 0, FALSE, NoUser, 0, FALSE, 0, 0)

MaxAttempts == 5
CodeLifetime == 5 * 60

\* models.py 94-100: User.is_code_expired
is_code_expired(user, now) == now > user.code_sent_at + CodeLifetime

\* bookkeeping read by the properties only: "wrong" counts the wrong codes
\* compared since the last code was stored, "fifth" is the time of the last
\* failed attempt that brought code_attempts to 5
Never == [set |-> FALSE, at |-> 0]

\* cache.get(cache_key) at the time "now": the entry, unless it has expired
CacheGet(cache, phone, now) == cache[phone] > now

InitAuth ==
    /\ \E known \in SUBSET Phones, recent \in SUBSET Phones :
         auth = [users |-> [p \in Phones |->
                              IF p \in recent
                              THEN User(1000, 0 - TickSeconds, MaxAttempts - 1, FALSE)
                              ELSE IF p \in known
                              THEN User(1000, 0 - 10 * CacheTimeout, 2, TRUE)
                              ELSE NoUser],
                 cache |-> [p \in Phones |->
                              IF p \in recent
                              THEN 0 - TickSeconds + CacheTimeout ELSE 0 - 1],
                 now |-> 0, ticks |-> 0, posts |-> 0,
                 wrong |-> [p \in Phones |->
                              IF p \in recent THEN MaxAttempts - 1
                              ELSE IF p \in known THEN 2 ELSE 0],
                 fifth |-> [p \in Phones |-> Never],
                 req |-> [c \in Clients |-> NoRequest]]
    /\ occ = OccIdle
    /\ sh = ShIdle
    /\ events = <<>>
    /\ log = {}
    /\ now_utc = 0
    /\ inv = <<>>
    /\ hist = <<>>
    /\ api = <<>>

\* time passes
AuthTick ==
    /\ auth.ticks < MaxTicks
    /\ auth' = [auth EXCEPT !.now = @ + TickSeconds, !.ticks = @ + 1]
    /\ UNCHANGED <<occ, sh, events, log, now_utc, inv, hist, api>>

\* views.py 105-118: a request comes in; it is answered 429 when the cache
\* holds the key of the number, else it draws a code
Post(c) ==
    /\ auth.req[c].pc \in {"idle", "done"}
    /\ auth.posts < MaxPosts
    /\ \E phone \in Phones, code \in Codes :
         auth' = [auth EXCEPT
                    !.posts = @ + 1,
                    !.req[c] =
                       IF CacheGet(auth.cache, phone, auth.now)
                       THEN Request("send", "done", phone, 0, FALSE, NoUser,
                                    auth.now, FALSE, 0, 429)
                       ELSE Request("send", "query", phone, code, FALSE, NoUser,
                                    auth.now, FALSE, 0, 0)]
    /\ UNCHANGED <<occ, sh, events, log, now_utc, inv, hist, api>>

\* serializers.py 30-46, 50, 57: a verify-code request comes in. The user is
\* loaded (DoesNotExist when there is none), the age of the code and the
\* number of attempts are looked at, and the submitted code is compared
\* with the one of the loaded object (settings.DEBUG off).
Verify(c) ==
    /\ auth.req[c].pc \in {"idle", "done"}
    /\ auth.posts < MaxPosts
    /\ \E phone \in Phones, code \in Codes :
         LET user == auth.users[phone]
             ask(pc, status) == Request("verify", pc, phone, code, user # NoUser,
                                        user, auth.now, FALSE, 0, status)
         IN  IF user = NoUser
             THEN auth' = [auth EXCEPT !.posts = @ + 1, !.req[c] = ask("done", 500)]
             ELSE IF is_code_expired(user, auth.now)
                     \/ user.code_attempts >= MaxAttempts
             THEN auth' = [auth EXCEPT !.posts = @ + 1, !.req[c] = ask("done", 400)]
             ELSE IF user.confirmation_code # code
             THEN auth' = [auth EXCEPT !.posts = @ + 1,
                                       !.wrong[phone] = @ + 1,
                                       !.req[c] = ask("increment", 0)]
             ELSE auth' = [auth EXCEPT !.posts = @ + 1, !.req[c] = ask("reset", 0)]
    /\ UNCHANGED <<occ, sh, events, log, now_utc, inv, hist, api>>

\* serializers.py 58-68, one write to the store at a time:
\* increment_code_attempts (models.py 102-105: the loaded value plus one,
\* saved) and the ValidationError; or reset_code_attempts (models.py
\* 107-110) and then user.save(), which writes every column of the loaded
\* object.
Settle(c) ==
    /\ auth.req[c].pc \in {"increment", "reset", "save"}
    /\ LET r == auth.req[c]
       IN  IF r.pc = "increment"
           THEN auth' = [auth EXCEPT
                   !.users[r.phone].code_attempts = r.seen.code_attempts + 1,
                   !.fifth[r.phone] =
                       IF r.seen.code_attempts + 1 = MaxAttempts
                       THEN [set |-> TRUE, at |-> auth.now] ELSE @,
                   !.req[c].pc = "done",
                   !.req[c].status = 400]
           ELSE IF r.pc = "reset"
           THEN auth' = [auth EXCEPT !.users[r.phone].code_attempts = 0,
                                     !.req[c].pc = "save"]
           ELSE auth' = [auth EXCEPT
                   !.users[r.phone] = [r.seen EXCEPT !.code_attempts = 0,
                                                     !.is_verified = TRUE],
                   !.req[c].pc = "done",
                   !.req[c].status = 200]
    /\ UNCHANGED <<occ, sh, events, log, now_utc, inv, hist, api>>

\* views.py 119-146, one access to the store or to the cache at a time: the
\* query for the user; create_user (phone_number is unique: IntegrityError
\* when the row is there by now) or save(update_fields=...); cache.set
Proceed(c) ==
    /\ auth.req[c].pc \in {"query", "write", "set"}
    /\ LET r == auth.req[c]
           u == auth.users[r.phone]
       IN  IF r.pc = "query"
           THEN auth' = [auth EXCEPT !.req[c].pc = "write",
                                     !.req[c].found = (u # NoUser)]
           ELSE IF r.pc = "write"
           THEN IF ~r.found /\ u # NoUser
                THEN auth' = [auth EXCEPT !.req[c].pc = "done",
                                          !.req[c].status = 500]
                ELSE auth' = [auth EXCEPT
                        !.users[r.phone] =
                            IF r.found
                            THEN [u EXCEPT !.confirmation_code = r.code,
                                           !.code_sent_at = auth.now,
                                           !.code_attempts = 0]
                            ELSE User(r.code, auth.now, 0, FALSE),
                        !.wrong[r.phone] = 0,
                        !.req[c].pc = "set",
                        !.req[c].wrote = TRUE,
                        !.req[c].gap = IF u = NoUser THEN CacheTimeout
                                       ELSE auth.now - u.code_sent_at]
           ELSE auth' = [auth EXCEPT
                           !.cache[r.phone] = auth.now + CacheTimeout,
                           !.req[c].pc = "done",
                           !.req[c].status = 200]
    /\ UNCHANGED <<occ, sh, events, log, now_utc, inv, hist, api>>

NextAuth ==
    \/ AuthTick
    \/ \E c \in Clients : Post(c)
    \/ \E c \in Clients : Verify(c)
    \/ \E c \in Clients : Settle(c)
    \/ \E c \in Clients : Proceed(c)

SpecAuth == InitAuth /\ [][NextAuth]_vars

(***************************************************************************)
(* Properties of the sweep (under Spec)                                    *)
(*                                                                         *)
(* hist.passed holds <<run, event, date>> for every run that got past the  *)
(* existence check of lines 54-60 (where the dispatch of lines 62-63 is to *)
(* happen), hist.created the same for every row inserted.                  *)
(***************************************************************************)

\* the specification's notion of a due event: the stored timezone_offset
\* gives the local time, whose hour, minute and date decide
DueLocal(event, now) == now + event.timezone_offset

DueDate(event, now) == DueLocal(event, now) \div 1440 + 1

Due(event, now) ==
    LET local == DueLocal(event, now)
        d     == DueDate(event, now)
        o     == generate_occurrences(event, d, d)
    IN  /\ (local % 1440) \div 60 = event.time.hour
        /\ local % 60 = event.time.minute
        /\ ~o.raised
        /\ o.value # <<>>

Pks == DOMAIN events

C2_SequentialRunsLeaveOneRow ==
    ( /\ inv["w1"].pc = "done" /\ inv["w2"].pc = "done"
      /\ inv["w1"].alone /\ inv["w2"].alone
      /\ inv["w1"].run + 1 = inv["w2"].run
      /\ inv["w1"].now = inv["w2"].now
      /\ inv["w1"].log0 = {} )
    => \A pk \in Pks :
          Due(events[pk], inv["w1"].now) =>
             LET d == DueDate(events[pk], inv["w1"].now) IN
             /\ <<pk, d>> \in log
             /\ <<inv["w1"].run, pk, d>> \in hist.created
             /\ <<inv["w2"].run, pk, d>> \notin hist.passed

\* C3: a tick at now_utc inserts the row (event, d) iff, with now_local =
\* now_utc + offset and d the date of now_local, the hour and the minute of
\* now_local are those of event.time, generate_occurrences(event, d, d) is
\* not empty and no row (event, d) was there before the tick; otherwise the
\* tick leaves the event's rows as they were.
C3_FiresIffDue ==
    \A i \in Invs :
       (inv[i].pc = "done" /\ inv[i].alone) =>
          /\ inv[i].log0 \subseteq inv[i].log1
          /\ \A pk \in Pks :
                LET d == DueDate(events[pk], inv[i].now) IN
                /\ (<<pk, d>> \in inv[i].log1 \ inv[i].log0)
                      <=> (Due(events[pk], inv[i].now) /\ <<pk, d>> \notin inv[i].log0)
                /\ \A row \in inv[i].log1 \ inv[i].log0 : row[1] = pk => row[2] = d

\* the scheduler gets no integer out of the event's stored offset
Uninterpretable(event) ==
    LET tz == EventTimezone(event) IN tz.raised \/ tz.fmt # "int"

RaisesWhenDue(event, now) ==
    LET local == DueLocal(event, now)
        d     == DueDate(event, now)
    IN  /\ (local % 1440) \div 60 = event.time.hour
        /\ local % 60 = event.time.minute
        /\ generate_occurrences(event, d, d).raised

C12_LoggedWhateverDispatch ==
    \A i \in Invs :
       (inv[i].pc = "done" /\ inv[i].alone) =>
          \A pk \in Pks :
             Due(events[pk], inv[i].now) =>
                LET d == DueDate(events[pk], inv[i].now) IN
                /\ <<pk, d>> \in log
                /\ Cardinality({ x \in hist.passed : x[2] = pk /\ x[3] = d }) <= 1

\* the instants the clock shows
ClockValues == { ClockStart + k * ClockStep : k \in 0..MaxClock }

\* C24: when a tick that does not fail runs at the instant t at which an
\* event is due (its local time now_utc + offset has the event's hour and
\* minute, on a date d that generate_occurrences yields), the row (event, d)
\* eventually exists.
C24_EventuallyLogged ==
    \A pk \in 1..2 : \A t \in ClockValues : \A i \in Invs :
       ( /\ inv[i].pc = "loop" /\ inv[i].now = t
         /\ Due(events[pk], t) )
       ~> ( \/ <<pk, DueDate(events[pk], t)>> \in log
            \/ inv[i].pc = "failed" )

(***************************************************************************)
(* Properties of the writes through EventSerializer (under SpecApi)        *)
(***************************************************************************)

StoredEvents == { pk \in EventIds : api.events[pk] # NoEvent }

StoredRules == { rid \in RuleIds : api.rules[rid] # NoRule }

\* C13: after any sequence of creations, full updates and partial updates
\* that pass validation, each stored event is recurring if and only if it
\* refers to a rule (and the rule it refers to is a stored one).
C13_FlagIffRule ==
    \A pk \in StoredEvents :
       /\ api.events[pk].is_recurring <=> api.events[pk].recurrence # 0
       /\ api.events[pk].recurrence # 0 => api.events[pk].recurrence \in StoredRules

\* an accepted update has just turned a recurring event into a non-recurring
\* one, and its rule is gone
C13_Witness ==
    /\ api.last.op = "update"
    /\ api.last.status = "ok"
    /\ api.last.flipped
    /\ api.last.pk \in StoredEvents
    /\ ~api.events[api.last.pk].is_recurring
    /\ api.events[api.last.pk].recurrence = 0
    /\ StoredRules = {}

\* C14: after any sequence of creations, updates and deletions, every stored
\* rule is the rule of a stored recurring event: the rule goes when its event
\* becomes non-recurring and when its event is deleted.
C14_NoRuleWithoutEvent ==
    \A rid \in StoredRules :
       \E pk \in StoredEvents :
          api.events[pk].is_recurring /\ api.events[pk].recurrence = rid

\* C15: a log row stays as long as its event is stored: no tick and no update
\* of the event removes it, the update from recurring to non-recurring
\* included; only the deletion of the event takes its rows away.
C15_LogRowsStay ==
    \A e \in api.last.removed : e[1] \notin StoredEvents

\* C16: every stored weekly rule has a non-empty week_days and every stored
\* monthly rule a non-empty month_days, whatever creations and full or
\* partial updates were accepted.
C16_DaySetPresent ==
    \A rid \in StoredRules :
       /\ api.rules[rid].frequency = "weekly" => api.rules[rid].week_days # {}
       /\ api.rules[rid].frequency = "monthly" => api.rules[rid].month_days # {}

\* the payload value is a whole number of minutes within [-840, 840]
WholeInRange(data) ==
    /\ data.kind = "number"
    /\ data.tenths % 10 = 0
    /\ data.tenths >= 0 - MaxOffset * 10
    /\ data.tenths <= MaxOffset * 10

\* C17: stored offsets are whole minutes within [-840, 840]; a write whose
\* offset is not a whole number or lies outside the range gets a validation
\* error and leaves the store as it was; a creation without an offset stores
\* no event.
C17_OffsetValidated ==
    /\ \A pk \in StoredEvents :
          /\ api.events[pk].timezone_offset >= 0 - MaxOffset
          /\ api.events[pk].timezone_offset <= MaxOffset
    /\ ( /\ api.last.op \in {"create", "update"}
         /\ "timezone_offset" \in api.last.keys
         /\ ~WholeInRange(api.last.timezone_offset) )
       => (api.last.status = "400" /\ ~api.last.changed)
    /\ ( /\ api.last.op = "create"
         /\ "timezone_offset" \notin api.last.keys )
       => (api.last.status # "ok" /\ ~api.last.changed)

\* C18: after an accepted write that sent the UTC time t with the offset o,
\* the response shows t again, and the sweep passes the event on to the
\* dispatch in the minute of any day at which the UTC clock shows t, when
\* that local day is an occurrence without a log row.
C18_TimeRoundTrip ==
    ( /\ api.last.op \in {"create", "update"}
      /\ api.last.status = "ok"
      /\ {"time", "timezone_offset"} \subseteq api.last.keys
      /\ WholeInRange(api.last.timezone_offset)
      /\ api.last.pk \in StoredEvents )
    => /\ api.last.rep.time = api.last.time
       /\ \A d \in (Epoch - 1) .. (Epoch + 7) :
             LET pk    == api.last.pk
                 event == Resolve(api.events[pk], api.rules)
                 now   == Combine(d, api.last.time)
                 today == DateOf(now + IntOf(api.last.timezone_offset).value)
                 o     == generate_occurrences(event, today, today)
             IN  (~o.raised /\ o.value # <<>> /\ <<pk, today>> \notin api.log)
                    => Examine(pk, event, now, api.log).op = "create"

\* C23: update() does not raise once it has saved something; in particular
\* a partial update of a recurring event without a recurrence payload
\* completes, and leaves the rule and the flag as they were. (An error in
\* building the response body afterwards is not counted.)
C23_NoErrorAfterSave ==
    (api.last.op = "update" /\ api.last.status = "500" /\ ~api.last.rep.raised)
       => ~api.last.changed

(***************************************************************************)
(* Properties of SendCodeView (under SpecAuth)                             *)
(***************************************************************************)

\* C20: a code is stored for a phone number at most once per minute: no
\* request, concurrent ones included, replaces confirmation_code,
\* code_sent_at and code_attempts of a user whose code was sent less than 60
\* seconds before.
C20_OncePerMinute ==
    \A c \in Clients :
       auth.req[c].wrote => auth.req[c].gap >= CacheTimeout

(***************************************************************************)
(* Properties of VerifyCodeView (under SpecAuth)                           *)
(***************************************************************************)

\* the block announced by the description of the endpoint, in seconds
BlockSeconds == 15 * 60

\* C21: once a failed attempt has brought code_attempts of a phone number to
\* 5, no verify-code request for that number that arrives within the next 15
\* minutes ends with status 200, whatever code it carries and whether or not
\* a new code was requested in between.
C21_BlockedAfterFive ==
    \A c \in Clients :
       LET r == auth.req[c]
       IN  ( /\ r.kind = "verify" /\ r.pc = "done" /\ r.status = 200
             /\ auth.fifth[r.phone].set
             /\ r.at > auth.fifth[r.phone].at )
              => r.at - auth.fifth[r.phone].at >= BlockSeconds

\* C22: code_attempts of every user is within 0..5, and at most 5 wrong
\* codes are compared with one stored confirmation code, concurrent verify
\* requests included.
C22_AtMostFiveGuesses ==
    \A p \in Phones :
       /\ auth.users[p] # NoUser => auth.users[p].code_attempts \in 0..MaxAttempts
       /\ auth.wrong[p] <= MaxAttempts

(***************************************************************************)
(* Properties of generate_occurrences (under SpecOcc)                      *)
(***************************************************************************)

OccReturned == occ.pc = "ret" /\ ~occ.result.raised

\* the dates of a returned list
Elems(s) == { s[k] : k \in 1..Len(s) }

StrictlyAscending(s) == \A k \in 1..(Len(s) - 1) : s[k] < s[k + 1]

\* a recurring event that has its rule, of one of the three frequencies
OccRecurring ==
    /\ occ.event.is_recurring
    /\ occ.event.recurrence.frequency \in {"daily", "weekly", "monthly"}

\* C4: a non-recurring event yields exactly [start_date] when start_date lies
\* in [date_from, date_to] and the empty list otherwise, whatever rule is
\* attached to the event.
C4_NonRecurring ==
    (occ.pc = "ret" /\ ~occ.event.is_recurring) =>
        /\ ~occ.result.raised
        /\ occ.result.value =
             IF occ.date_from <= occ.event.start_date
                /\ occ.event.start_date <= occ.date_to
             THEN <<occ.event.start_date>>
             ELSE <<>>

C4_Witness ==
    /\ occ.pc = "ret"
    /\ ~occ.event.is_recurring
    /\ occ.event.recurrence # NoRule
    /\ occ.date_from < occ.date_to
    /\ occ.event.start_date = occ.date_from
    /\ occ.result.value = <<occ.event.start_date>>

\* the days the specification lists for a recurring event and a window
C5_Expected ==
    LET rule == occ.event.recurrence IN
    { d \in Max2(occ.event.start_date, occ.date_from) .. occ.date_to :
        /\ rule.end_date # 0 => d <= rule.end_date
        /\ \/ rule.frequency = "daily"
           \/ rule.frequency = "weekly" /\ ((d - Epoch) % 7) + 1 \in rule.week_days
           \/ rule.frequency = "monthly" /\ Civil(d).day \in rule.month_days }

\* C5: a recurring event yields, strictly ascending and without duplicates,
\* exactly the days d with max(start_date, date_from) <= d <= date_to (and
\* d <= end_date when set) that match the rule: daily every day, weekly the
\* ISO weekdays of week_days, monthly the days of month_days; weekly [1,4]
\* from Monday 2024-01-01 over 2024-01-01..2024-01-14 yields 01-01, 01-04,
\* 01-08, 01-11.
C5_Recurring ==
    (occ.pc = "ret" /\ OccRecurring) =>
        /\ ~occ.result.raised
        /\ StrictlyAscending(occ.result.value)
        /\ Elems(occ.result.value) = C5_Expected
        /\ Len(occ.result.value) = Cardinality(C5_Expected)
        /\ \A d \in Elems(occ.result.value) :
              /\ occ.date_from <= d /\ d <= occ.date_to
              /\ occ.event.start_date <= d
        /\ ( /\ occ.event.start_date = Ordinal(2024, 1, 1)
             /\ occ.event.recurrence.frequency = "weekly"
             /\ occ.event.recurrence.week_days = {1, 4}
             /\ occ.event.recurrence.end_date = 0
             /\ occ.date_from = Ordinal(2024, 1, 1)
             /\ occ.date_to = Ordinal(2024, 1, 14) )
           => occ.result.value = << Ordinal(2024, 1, 1), Ordinal(2024, 1, 4),
                                    Ordinal(2024, 1, 8), Ordinal(2024, 1, 11) >>

C5_Witness ==
    /\ occ.pc = "ret"
    /\ occ.event.is_recurring
    /\ occ.event.start_date = Ordinal(2024, 1, 1)
    /\ occ.event.recurrence.frequency = "weekly"
    /\ occ.event.recurrence.week_days = {1, 4}
    /\ occ.event.recurrence.end_date = 0
    /\ occ.date_from = Ordinal(2024, 1, 1)
    /\ occ.date_to = Ordinal(2024, 1, 14)
    /\ Len(occ.result.value) = 4

\* C6: with an end_date, no returned date is later than end_date, for every
\* frequency, and end_date itself is returned when it lies in the window, is
\* not before start_date and matches the rule.
C6_EndDate ==
    LET rule == occ.event.recurrence IN
    (occ.pc = "ret" /\ OccRecurring /\ rule.end_date # 0) =>
        /\ ~occ.result.raised
        /\ \A d \in Elems(occ.result.value) : d <= rule.end_date
        /\ ( /\ occ.date_from <= rule.end_date /\ rule.end_date <= occ.date_to
             /\ occ.event.start_date <= rule.end_date
             /\ \/ rule.frequency = "daily"
                \/ /\ rule.frequency = "weekly"
                   /\ ((rule.end_date - Epoch) % 7) + 1 \in rule.week_days
                \/ /\ rule.frequency = "monthly"
                   /\ Civil(rule.end_date).day \in rule.month_days )
           => rule.end_date \in Elems(occ.result.value)

\* a window that runs past the end_date, which is the last date returned, for
\* a weekly rule (2024-02-01 is a Thursday)
C6_Witness ==
    /\ OccReturned
    /\ occ.event.is_recurring
    /\ occ.event.recurrence.frequency = "weekly"
    /\ occ.event.recurrence.end_date # 0
    /\ occ.event.recurrence.end_date < occ.date_to
    /\ Len(occ.result.value) >= 2
    /\ occ.result.value[Len(occ.result.value)] = occ.event.recurrence.end_date

\* the months (as [year, month]) of the days lo..hi
MonthKey(d) == <<Civil(d).year, Civil(d).month>>

\* C7: a monthly rule yields no date for a listed day that the month does
\* not have: every returned date's day of the month is listed in month_days
\* (the last day of a shorter month and the first days of the next month are
\* not returned in its place), so a month that has none of the listed days
\* gets no date at all.
C7_NoClampNoRollover ==
    LET rule == occ.event.recurrence IN
    (occ.pc = "ret" /\ occ.event.is_recurring /\ rule.frequency = "monthly") =>
        /\ ~occ.result.raised
        /\ \A d \in Elems(occ.result.value) : Civil(d).day \in rule.month_days
        /\ \A d \in Elems(occ.result.value) :
              \E k \in rule.month_days : k <= DaysInMonth(d)
        /\ \A x \in occ.date_from .. occ.date_to :
              (\A k \in rule.month_days : k > DaysInMonth(x))
                 => \A d \in Elems(occ.result.value) : MonthKey(d) # MonthKey(x)

\* month_days = [31] over a window that holds all of February 2024 and the
\* first days of March: January 31 is returned, nothing later
C7_Witness ==
    /\ OccReturned
    /\ occ.event.is_recurring
    /\ occ.event.recurrence.frequency = "monthly"
    /\ occ.event.recurrence.month_days = {31}
    /\ occ.event.recurrence.end_date = 0
    /\ occ.event.start_date <= occ.date_from
    /\ occ.date_from = Ordinal(2024, 1, 31)
    /\ occ.date_to >= Ordinal(2024, 3, 2)
    /\ occ.result.value = << Ordinal(2024, 1, 31) >>

\* values of RecurrenceRule.interval (a PositiveIntegerField, default 1)
OtherIntervals == {0, 1, 2, 3, 7}

\* the event of the call with another interval in its rule
WithInterval(event, i) ==
    [event EXCEPT !.recurrence =
        IF event.recurrence = NoRule THEN NoRule
        ELSE [event.recurrence EXCEPT !.interval = i]]

\* C19: the list generate_occurrences returns is the same for every value of
\* rule.interval: a rule with interval 2 yields what interval 1 yields.
C19_IntervalIgnored ==
    occ.pc = "ret" =>
       \A i \in OtherIntervals :
          generate_occurrences(WithInterval(occ.event, i),
                               occ.date_from, occ.date_to) = occ.result

\* a daily rule with interval 2 returned two days in a row
C19_Witness ==
    /\ OccReturned
    /\ OccRecurring
    /\ occ.event.recurrence.frequency = "daily"
    /\ occ.event.recurrence.interval = 2
    /\ \E k \in 1..(Len(occ.result.value) - 1) :
          occ.result.value[k + 1] = occ.result.value[k] + 1

(***************************************************************************)
(* Properties of shift_time_by_minutes (under SpecShift)                   *)
(***************************************************************************)

\* minutes since midnight
MinuteOfDay(t) == t.hour * 60 + t.minute

\* C8: shifting by d and then by -d gives the time back, for every time of
\* day and every d, also when t + d crosses midnight in either direction.
C8_RoundTrip ==
    sh.pc = "back" => sh.back = sh.t

\* a round trip that left the day of t, backwards
C8_Witness ==
    /\ sh.pc = "back"
    /\ MinuteOfDay(sh.t) + sh.d < 0
    /\ sh.out # sh.t
    /\ sh.back = sh.t

\* C9: the result is the time of day with (m + delta) mod 1440 minutes since
\* midnight, a valid time in [00:00, 23:59]; the value carries nothing but the
\* hour and the minute (no sign that the date changed).
C9_ModuloDay ==
    sh.pc \in {"shifted", "back"} =>
        /\ DOMAIN sh.out = {"hour", "minute"}
        /\ sh.out.hour \in 0..23
        /\ sh.out.minute \in 0..59
        /\ MinuteOfDay(sh.out) = (MinuteOfDay(sh.t) + sh.d) % 1440

\* an offset of +840 that carries 23:59 into the next day
C9_Witness ==
    /\ sh.pc = "shifted"
    /\ sh.t = Time(23, 59)
    /\ sh.d = 840
    /\ sh.out = Time(13, 59)

====
